---- MODULE Spec2Model ----
(***************************************************************************)
(* Model of the audio activities of pphelan007/davidAI:                    *)
(*   findNonSilentRange  (internal/temporal/activities/audio_activities.go)*)
(*   TrimSilence         (same file)                                       *)
(*   ComputeSNR          (internal/temporal/activities/feature_extraction) *)
(*                                                                         *)
(* Go slices are 0-based; a slice s is the sequence with s[i] = Seq[i+1].  *)
(* float64 parameters are carried as exact rationals: thresholds in        *)
(* thousandths (0.01 = 10), durations in milliseconds (0.1 s = 100).       *)
(***************************************************************************)
EXTENDS Integers, Sequences, FiniteSets, TLC

VARIABLES
    \* ---- findNonSilentRange called on its own
    rIn,        \* the arguments: samples, channels, threshold, sampleRate, minSilenceDuration
    rPc,        \* "call" before the call, "done" after it returned
    rOut,       \* the returned pair <<startIdx, endIdx>>
    \* ---- the file system and the clock
    disk,       \* path -> inode number, 0 when no file has that name
    inode,      \* inode number -> file content
    now,        \* time.Now() in whole seconds
    \* ---- TrimSilence, one invocation per element of Procs
    tIn,        \* p -> TrimSilenceInput
    tPc,        \* p -> position of the invocation in TrimSilence
    tLoc,       \* p -> local variables of the invocation
    tRes,       \* p -> what the invocation returned
    \* ---- ComputeSNR, called repeatedly on one activities client
    sIn,        \* the ComputeSNRInput of the current call
    sPc,        \* "call" while the call runs, "done" after it returned
    sLoc,       \* the decoded samples of the current call
    sOut,       \* what the current call returned
    sCalls,     \* number of calls that have returned
    dbClient,   \* ac.dbClient != nil
    features,   \* the rows of the features table, in insertion order
    \* ---- AudioProcessingWorkflow, one execution
    wfIn,       \* the AudioProcessingWorkflowInput
    wfPc,       \* "ingest" or "trim": the step the workflow is at; "done" after it returned
    wfRunning,  \* the activity being executed, "none" between executions
    wfAttempts, \* activity name -> attempts started so far
    wfTrimIn,   \* the TrimSilenceInput handed to ExecuteActivity
    wfIngestOut, \* ingestOutput
    wfTrimOut,  \* trimOutput
    wfResult,   \* what the workflow returned
    \* ---- Run: the routines started by StartRoutines and their shutdown
    routines,   \* the routines handed to StartRoutines, by kind
    rtPc,       \* r -> position of the goroutine of routine r
    sent,       \* r -> number of errors the goroutine of r has put on errChan
    ctxCancelled, \* ec.ctx is cancelled
    errChan,    \* the buffered error channel
    mainWg,     \* counter of mainWg
    sig,        \* progress of the interrupt handling
    mainPc,     \* position of Run
    closed,     \* the routines Run has called Close on, in call order
    twPc,       \* the goroutine that runs temporalWorker.Run
    wCtxCancelled \* w.ctx of the Worker is cancelled

rangeVars == <<rIn, rPc, rOut>>
fsVars == <<disk, inode, now>>
trimVars == <<tIn, tPc, tLoc, tRes>>
snrVars == <<sIn, sPc, sLoc, sOut, sCalls, dbClient, features>>
wfVars == <<wfIn, wfPc, wfRunning, wfAttempts, wfTrimIn, wfIngestOut, wfTrimOut, wfResult>>
runVars == <<routines, rtPc, sent, ctxCancelled, errChan, mainWg, sig, mainPc, closed,
             twPc, wCtxCancelled>>
vars == <<rIn, rPc, rOut, disk, inode, now, tIn, tPc, tLoc, tRes,
          sIn, sPc, sLoc, sOut, sCalls, dbClient, features, wfVars, runVars>>

\* what the actions of one part leave alone
outsideRange == <<fsVars, trimVars, snrVars, wfVars, runVars>>
outsideTrim == <<rangeVars, snrVars, wfVars, runVars>>
outsideSnr == <<rangeVars, trimVars, wfVars, runVars>>
outsideWf == <<rangeVars, trimVars, snrVars, runVars>>
outsideRun == <<rangeVars, fsVars, trimVars, snrVars, wfVars>>

\* ------------------------------------------------------------------------
\* Bounds of the model
\* ------------------------------------------------------------------------
MaxLen == 5            \* longest sample buffer drawn for findNonSilentRange
MaxChannels == 2       \* largest channel count drawn
TrimMaxFrames == 3     \* longest source file given to TrimSilence, in frames
MaxTime == 1           \* the clock runs from second 0 to second MaxTime
SnrMaxFrames == 2      \* longest file given to ComputeSNR, in frames
MaxCalls == 2          \* number of ComputeSNR calls made in a run

\* ------------------------------------------------------------------------
\* Arithmetic helpers
\* ------------------------------------------------------------------------
Abs(x) == IF x < 0 THEN -x ELSE x

Min(S) == CHOOSE x \in S : \A y \in S : x <= y

Max(S) == CHOOSE x \in S : \A y \in S : x >= y

\* ThresholdValue that rounds to the nearest integer
ThresholdValueRounded(thresholdMilli) == (thresholdMilli * 32767 + 500) \div 1000

\* int(threshold * maxSampleValue) with maxSampleValue = 32767.0; the
\* threshold is given in thousandths and Go's int() truncates.
ThresholdValue(thresholdMilli) == (thresholdMilli * 32767) \div 1000

\* int(float64(sampleRate) * minSilenceDuration), duration in milliseconds.
MinSilenceSamples(sampleRate, durationMs) == (sampleRate * durationMs) \div 1000

\* ------------------------------------------------------------------------
\* findNonSilentRange
\* ------------------------------------------------------------------------
\* The inner loop over ch: the frame at sample offset i is silent iff no
\* channel that lies inside the buffer is above the threshold value.
IsSilentAt(samples, channels, thresholdValue, i) ==
    \A ch \in 0..(channels - 1) :
        (i + ch >= 0 /\ i + ch < Len(samples))
            => Abs(samples[i + ch + 1]) <= thresholdValue

\* StartLoop without the break: startIdx ends as the last non-silent frame
\* visited
StartLoopNoBreak(samples, channels, thresholdValue) ==
    LET visited == {i \in 0..(Len(samples) - channels - 1) : i % channels = 0}
        loud == {i \in visited : ~IsSilentAt(samples, channels, thresholdValue, i)}
    IN  IF loud = {} THEN 0 ELSE Max(loud)

\* StartLoop with i++ in place of i += channels
StartLoopStepOne(samples, channels, thresholdValue) ==
    LET visited == 0..(Len(samples) - channels - 1)
        loud == {i \in visited : ~IsSilentAt(samples, channels, thresholdValue, i)}
    IN  IF loud = {} THEN 0 ELSE Min(loud)

\* for i := 0; i < len(samples)-channels; i += channels { ... }
\* The loop visits the offsets 0, channels, 2*channels, ... below
\* len(samples)-channels and leaves at the first one whose frame is not
\* silent, setting startIdx to it; startIdx keeps its initial 0 otherwise.
StartLoop(samples, channels, thresholdValue) ==
    LET visited == {i \in 0..(Len(samples) - channels - 1) : i % channels = 0}
        loud == {i \in visited : ~IsSilentAt(samples, channels, thresholdValue, i)}
    IN  IF loud = {} THEN 0 ELSE Min(loud)

\* EndLoop with silenceCount*channels > minSilenceSamples in place of >=
EndLoopStrict(samples, channels, thresholdValue, minSilenceSamples, startIdx) ==
    LET first == Len(samples) - channels
        visited == {i \in startIdx..first : (first - i) % channels = 0}
        silenceCount(i) == (first - i) \div channels
        leaves == {i \in visited :
                      \/ ~IsSilentAt(samples, channels, thresholdValue, i)
                      \/ (silenceCount(i) + 1) * channels > minSilenceSamples}
    IN  IF leaves = {} THEN Len(samples) ELSE Max(leaves) + channels

\* EndLoop with endIdx = i in place of endIdx = i + channels
EndLoopOffByOne(samples, channels, thresholdValue, minSilenceSamples, startIdx) ==
    LET first == Len(samples) - channels
        visited == {i \in startIdx..first : (first - i) % channels = 0}
        silenceCount(i) == (first - i) \div channels
        leaves == {i \in visited :
                      \/ ~IsSilentAt(samples, channels, thresholdValue, i)
                      \/ (silenceCount(i) + 1) * channels >= minSilenceSamples}
    IN  IF leaves = {} THEN Len(samples) ELSE Max(leaves)

\* for i := len(samples) - channels; i >= startIdx; i -= channels { ... }
\* The loop visits the offsets len-channels, len-2*channels, ... down to
\* startIdx. When it examines offset i every frame after it was silent, so
\* silenceCount is the number of frames after it; the loop leaves at the
\* first visited offset whose frame is not silent or at which the
\* incremented silenceCount times channels reaches minSilenceSamples, and
\* sets endIdx = i + channels; endIdx keeps len(samples) otherwise.
EndLoop(samples, channels, thresholdValue, minSilenceSamples, startIdx) ==
    LET first == Len(samples) - channels
        visited == {i \in startIdx..first : (first - i) % channels = 0}
        silenceCount(i) == (first - i) \div channels
        leaves == {i \in visited :
                      \/ ~IsSilentAt(samples, channels, thresholdValue, i)
                      \/ (silenceCount(i) + 1) * channels >= minSilenceSamples}
    IN  IF leaves = {} THEN Len(samples) ELSE Max(leaves) + channels

findNonSilentRange(samples, channels, thresholdMilli, sampleRate, durationMs) ==
    IF Len(samples) = 0
    THEN <<0, 0>>
    ELSE LET thresholdValue == ThresholdValue(thresholdMilli)
             minSilenceSamples == MinSilenceSamples(sampleRate, durationMs)
             startIdx == StartLoop(samples, channels, thresholdValue)
             endIdx == EndLoop(samples, channels, thresholdValue, minSilenceSamples,
                               startIdx)
         IN  IF endIdx <= startIdx
             THEN <<0, Len(samples)>>
             ELSE <<startIdx, endIdx>>

\* ------------------------------------------------------------------------
\* Inputs of the stand-alone findNonSilentRange specification
\* ------------------------------------------------------------------------
\* Sample values on both sides of the threshold value 327 (threshold 0.01).
SampleValues == {0, 327, -328, 20000}

RECURSIVE SeqsUpTo(_, _)
SeqsUpTo(S, n) ==
    IF n = 0 THEN {<<>>}
    ELSE LET shorter == SeqsUpTo(S, n - 1)
         IN  shorter \cup {Append(s, x) : s \in {t \in shorter : Len(t) = n - 1}, x \in S}

\* n copies of v
Repeat(v, n) == [k \in 1..n |-> v]

\* 1000 silent frames, 2000 frames of amplitude 20000, 1000 silent frames
ExampleBuffer == Repeat(0, 1000) \o Repeat(20000, 2000) \o Repeat(0, 1000)

ExampleInput ==
    [samples |-> ExampleBuffer, channels |-> 1, threshold |-> 10,
     sampleRate |-> 1000, minSilenceDuration |-> 100]

RangeInputs ==
    {ExampleInput} \cup
    [samples : SeqsUpTo(SampleValues, MaxLen),
     channels : 1..MaxChannels,
     threshold : {0, 10, 1000},
     sampleRate : {1000, 1500},
     minSilenceDuration : {0, 1, 2, 3}]

\* ------------------------------------------------------------------------
\* Files, paths and hashes
\* ------------------------------------------------------------------------
\* A file content. kind is "wav" for a complete WAV file, "empty" for a file
\* just created or truncated, "partial" for a file the encoder has written
\* but not closed (chunk sizes not yet filled in), "corrupt" for a header
\* written over somebody else's bytes, "none" for an unused inode.
NoContent == [kind |-> "none", sampleRate |-> 0, channels |-> 0, bitDepth |-> 0, data |-> <<>>]

EmptyFile == [NoContent EXCEPT !.kind = "empty"]

WavFile(sampleRate, channels, bitDepth, data) ==
    [kind |-> "wav", sampleRate |-> sampleRate, channels |-> channels,
     bitDepth |-> bitDepth, data |-> data]

\* hex.EncodeToString(sha256 of the bytes): distinct contents have distinct
\* digests.
Sha256(content) == [sha256 |-> content]

\* the empty string in a ContentHash field
NoHash == [sha256 |-> NoContent]

Dirs == {"d1", "d2"}
AssetIDs == {"", "x"}

PlainName(n) == [kind |-> "plain", id |-> n, ts |-> 0]

\* fmt.Sprintf("trimmed_%s_%s.wav", input.AssetID, time.Now().Format("20060102_150405"))
TrimmedName(assetID, t) == [kind |-> "trimmed", id |-> assetID, ts |-> t]

Path(dir, name) == [dir |-> dir, name |-> name]

\* the empty string in an OutputPath field
NoPath == Path("", [kind |-> "none", id |-> "", ts |-> 0])

\* filepath.Join(filepath.Dir(input.SourcePath), <trimmed name>)
OutputPathOf(sourcePath, assetID, t) == Path(sourcePath.dir, TrimmedName(assetID, t))

Names == {PlainName("a"), PlainName("b")} \cup
         {TrimmedName(id, t) : id \in AssetIDs, t \in 0..MaxTime}

Paths == {Path(d, n) : d \in Dirs, n \in Names}

Procs == {1, 2}

\* inode of the file a fresh os.Create of invocation p makes
FreshInode(p) == 2 + p

Inodes == 1..4

\* int16(v) in the encoder's 16-bit branch
ToInt16(v) == ((v + 32768) % 65536) - 32768

\* wav.NewEncoder(outputFile, sampleRate, bitDepth, channels, 1) with
\* bitDepth := 16, then Write and Close: the bytes of the finished file.
Encode(sampleRate, channels, data) ==
    WavFile(sampleRate, channels, 16, [k \in 1..Len(data) |-> ToInt16(data[k])])

\* samples[startIdx:endIdx]
Slice(samples, startIdx, endIdx) == SubSeq(samples, startIdx + 1, endIdx)

\* ------------------------------------------------------------------------
\* TrimSilence
\* ------------------------------------------------------------------------
\* silenceThreshold / minSilenceDuration after the defaulting of zero
SilenceThresholdOf(input) ==
    IF input.SilenceThreshold = 0 THEN 10 ELSE input.SilenceThreshold

MinSilenceDurationOf(input) ==
    IF input.MinSilenceDuration = 0 THEN 100 ELSE input.MinSilenceDuration

NilOutput ==
    [ok |-> FALSE, NewAssetID |-> "", ContentHash |-> NoHash,
     WasTrimmed |-> FALSE, NoOp |-> FALSE, OutputPath |-> NoPath]

\* NoTrimOutput that leaves NoOp unset
NoTrimOutputNoOpNotSet(contentHash) ==
    [ok |-> TRUE, NewAssetID |-> "", ContentHash |-> contentHash,
     WasTrimmed |-> FALSE, NoOp |-> FALSE, OutputPath |-> NoPath]

\* the TrimSilenceOutput of the branch that needs no trimming
NoTrimOutput(contentHash) ==
    [ok |-> TRUE, NewAssetID |-> "", ContentHash |-> contentHash,
     WasTrimmed |-> FALSE, NoOp |-> TRUE, OutputPath |-> NoPath]

\* TrimmedOutput that leaves OutputPath set when the hashes are equal
TrimmedOutputKeepsPath(contentHash, originalHash, outputPath, newAssetID) ==
    LET output == [ok |-> TRUE, NewAssetID |-> "", ContentHash |-> contentHash,
                   WasTrimmed |-> TRUE, NoOp |-> FALSE, OutputPath |-> outputPath]
    IN  IF contentHash # originalHash
        THEN [output EXCEPT !.NewAssetID = newAssetID]
        ELSE [output EXCEPT !.NoOp = TRUE]

\* TrimmedOutput that does not set NoOp when the hashes are equal
TrimmedOutputNoOpNotSet(contentHash, originalHash, outputPath, newAssetID) ==
    LET output == [ok |-> TRUE, NewAssetID |-> "", ContentHash |-> contentHash,
                   WasTrimmed |-> TRUE, NoOp |-> FALSE, OutputPath |-> outputPath]
    IN  IF contentHash # originalHash
        THEN [output EXCEPT !.NewAssetID = newAssetID]
        ELSE [output EXCEPT !.OutputPath = NoPath]

\* TrimmedOutput that allocates the new asset id before comparing
TrimmedOutputAlwaysNewAsset(contentHash, originalHash, outputPath, newAssetID) ==
    LET output == [ok |-> TRUE, NewAssetID |-> newAssetID, ContentHash |-> contentHash,
                   WasTrimmed |-> TRUE, NoOp |-> FALSE, OutputPath |-> outputPath]
    IN  IF contentHash # originalHash
        THEN output
        ELSE [output EXCEPT !.NoOp = TRUE, !.OutputPath = NoPath]

\* the TrimSilenceOutput built after re-encoding and updated by the
\* comparison of the two hashes
TrimmedOutput(contentHash, originalHash, outputPath, newAssetID) ==
    LET output == [ok |-> TRUE, NewAssetID |-> "", ContentHash |-> contentHash,
                   WasTrimmed |-> TRUE, NoOp |-> FALSE, OutputPath |-> outputPath]
    IN  IF contentHash # originalHash
        THEN [output EXCEPT !.NewAssetID = newAssetID]
        ELSE [output EXCEPT !.NoOp = TRUE, !.OutputPath = NoPath]

\* uuid.New().String() of invocation p
NewUUID(p) == IF p = 1 THEN "uuid-1" ELSE "uuid-2"

NoLocals ==
    [samples |-> <<>>, sampleRate |-> 0, channels |-> 0, bitDepth |-> 0,
     startIdx |-> 0, endIdx |-> 0, file |-> 0, outputFile |-> 0,
     outputPath |-> NoPath, contentHash |-> NoHash, originalHash |-> NoHash,
     removed |-> FALSE]

\* the positions at which the next call of TrimSilence can return an error
FailingPcs == {"open", "noop", "create", "write", "close", "hashOutput", "hashOriginal"}

\* os.Open, decoder.IsValidFile, decoder.Format, decoder.PCMBuffer and
\* findNonSilentRange: lines 105-155 up to the branch on the range.
TrimOpenDecode(p) ==
    /\ tPc[p] = "open"
    /\ disk[tIn[p].SourcePath] # 0
    /\ inode[disk[tIn[p].SourcePath]].kind = "wav"
    /\ LET f == inode[disk[tIn[p].SourcePath]]
           range == findNonSilentRange(f.data, f.channels, SilenceThresholdOf(tIn[p]),
                                       f.sampleRate, MinSilenceDurationOf(tIn[p]))
       IN  /\ tLoc' = [tLoc EXCEPT ![p] =
                         [@ EXCEPT !.samples = f.data, !.sampleRate = f.sampleRate,
                                   !.channels = f.channels, !.bitDepth = f.bitDepth,
                                   !.startIdx = range[1], !.endIdx = range[2],
                                   !.file = disk[tIn[p].SourcePath]]]
           /\ tPc' = [tPc EXCEPT ![p] =
                         IF range[1] = 0 /\ range[2] = Len(f.data) THEN "noop" ELSE "create"]
    /\ UNCHANGED <<tIn, tRes, disk, inode, now, outsideTrim>>

\* lines 138-155: hash the original file and return the no-op output
TrimNoOp(p) ==
    /\ tPc[p] = "noop"
    /\ tRes' = [tRes EXCEPT ![p] = NoTrimOutput(Sha256(inode[tLoc[p].file]))]
    /\ tPc' = [tPc EXCEPT ![p] = "done"]
    /\ UNCHANGED <<tIn, tLoc, disk, inode, now, outsideTrim>>

\* lines 160-169: build the output path from the clock and os.Create it.
\* os.Create truncates a file that already has that name.
TrimCreate(p) ==
    /\ tPc[p] = "create"
    /\ LET outputPath == OutputPathOf(tIn[p].SourcePath, tIn[p].AssetID, now)
           fd == IF disk[outputPath] # 0 THEN disk[outputPath] ELSE FreshInode(p)
       IN  /\ disk' = [disk EXCEPT ![outputPath] = fd]
           /\ inode' = [inode EXCEPT ![fd] = EmptyFile]
           /\ tLoc' = [tLoc EXCEPT ![p] =
                         [@ EXCEPT !.outputPath = outputPath, !.outputFile = fd]]
    /\ tPc' = [tPc EXCEPT ![p] = "write"]
    /\ UNCHANGED <<tIn, tRes, now, outsideTrim>>

\* lines 171-181: encoder.Write(trimmedBuf); the file is not yet finished
TrimWrite(p) ==
    /\ tPc[p] = "write"
    /\ LET l == tLoc[p]
           bytes == Encode(l.sampleRate, l.channels, Slice(l.samples, l.startIdx, l.endIdx))
       IN  inode' = [inode EXCEPT ![l.outputFile] = [bytes EXCEPT !.kind = "partial"]]
    /\ tPc' = [tPc EXCEPT ![p] = "close"]
    /\ UNCHANGED <<tIn, tLoc, tRes, disk, now, outsideTrim>>

\* lines 183-185: encoder.Close() fills in the chunk sizes
TrimClose(p) ==
    /\ tPc[p] = "close"
    /\ LET l == tLoc[p]
           bytes == Encode(l.sampleRate, l.channels, Slice(l.samples, l.startIdx, l.endIdx))
           cur == inode[l.outputFile]
       IN  inode' = [inode EXCEPT ![l.outputFile] =
                        IF cur = [bytes EXCEPT !.kind = "partial"]
                        THEN bytes
                        ELSE [cur EXCEPT !.kind = "corrupt"]]
    /\ tPc' = [tPc EXCEPT ![p] = "hashOutput"]
    /\ UNCHANGED <<tIn, tLoc, tRes, disk, now, outsideTrim>>

\* lines 187-195: hash of the trimmed file, read through outputFile
TrimHashOutput(p) ==
    /\ tPc[p] = "hashOutput"
    /\ tLoc' = [tLoc EXCEPT ![p] = [@ EXCEPT !.contentHash = Sha256(inode[tLoc[p].outputFile])]]
    /\ tPc' = [tPc EXCEPT ![p] = "hashOriginal"]
    /\ UNCHANGED <<tIn, tRes, disk, inode, now, outsideTrim>>

\* lines 197-206: hash of the original file, read through file
TrimHashOriginal(p) ==
    /\ tPc[p] = "hashOriginal"
    /\ tLoc' = [tLoc EXCEPT ![p] = [@ EXCEPT !.originalHash = Sha256(inode[tLoc[p].file])]]
    /\ tPc' = [tPc EXCEPT ![p] = "compare"]
    /\ UNCHANGED <<tIn, tRes, disk, inode, now, outsideTrim>>

\* lines 208-228: build the output, compare the hashes, allocate the new
\* asset id or remove the output file, and return. The result of os.Remove
\* is discarded: whether it removed the file does not change what is
\* returned.
TrimCompare(p) ==
    /\ tPc[p] = "compare"
    /\ LET l == tLoc[p]
       IN  /\ tRes' = [tRes EXCEPT ![p] =
                         TrimmedOutput(l.contentHash, l.originalHash, l.outputPath, NewUUID(p))]
           /\ IF l.contentHash # l.originalHash
              THEN UNCHANGED <<disk, tLoc>>
              ELSE \E removeOk \in BOOLEAN :
                      IF removeOk /\ disk[l.outputPath] # 0
                      THEN /\ disk' = [disk EXCEPT ![l.outputPath] = 0]
                           /\ tLoc' = [tLoc EXCEPT ![p] = [@ EXCEPT !.removed = TRUE]]
                      ELSE UNCHANGED <<disk, tLoc>>
    /\ tPc' = [tPc EXCEPT ![p] = "done"]
    /\ UNCHANGED <<tIn, inode, now, outsideTrim>>

\* a failing call after which the output file is removed again
TrimFailCleansUp(p) ==
    /\ tPc[p] \in FailingPcs
    /\ tRes' = [tRes EXCEPT ![p] = NilOutput]
    /\ tPc' = [tPc EXCEPT ![p] = "done"]
    /\ UNCHANGED inode
    /\ disk' = IF tLoc[p].outputFile # 0
               THEN [disk EXCEPT ![tLoc[p].outputPath] = 0]
               ELSE disk
    /\ UNCHANGED <<tIn, tLoc, now, outsideTrim>>

\* any of the calls that TrimSilence checks returns an error: TrimSilence
\* returns nil and that error. Nothing is cleaned up. A failing
\* encoder.Write may have written part of the file.
TrimFail(p) ==
    /\ tPc[p] \in FailingPcs
    /\ tRes' = [tRes EXCEPT ![p] = NilOutput]
    /\ tPc' = [tPc EXCEPT ![p] = "done"]
    /\ \/ UNCHANGED inode
       \/ /\ tPc[p] = "write"
          /\ inode' = [inode EXCEPT ![tLoc[p].outputFile] = [@ EXCEPT !.kind = "partial"]]
    /\ UNCHANGED <<tIn, tLoc, disk, now, outsideTrim>>

\* the clock moves on to the next second
Tick ==
    /\ now < MaxTime
    /\ now' = now + 1
    /\ UNCHANGED <<disk, inode, tIn, tPc, tLoc, tRes, outsideTrim>>

\* ------------------------------------------------------------------------
\* ComputeSNR
\* ------------------------------------------------------------------------
\* float64 values are carried as reduced fractions of integers; a square
\* root is carried as the value under the root, and a decibel figure
\* 10*log10(ratio) + plus as the ratio under the logarithm and the plus.
RECURSIVE GCD(_, _)
GCD(a, b) == IF b = 0 THEN a ELSE GCD(b, a % b)

Rat(n, d) == LET g == GCD(n, d) IN [num |-> n \div g, den |-> d \div g]

RatZero == [num |-> 0, den |-> 1]
RatOne == [num |-> 1, den |-> 1]

\* a / b for fractions, b # 0
RatDiv(a, b) == Rat(a.num * b.den, a.den * b.num)

\* math.Sqrt(x)
Sqrt(x) == [sqrtOf |-> x]

\* 10.0 * math.Log10(ratio)
TenLog10(ratio) == [tenLog10Of |-> ratio, plus |-> 0]

\* the float64 constants 0.0 and 120.0 as decibel figures (10*log10(1) = 0)
Decibels(c) == [tenLog10Of |-> RatOne, plus |-> c]

RECURSIVE SumSquared(_)
SumSquared(samples) ==
    IF samples = <<>> THEN 0
    ELSE Head(samples) * Head(samples) + SumSquared(Tail(samples))

\* NoiseThresholdOf that applies the default only to calls without asset
NoiseThresholdOfByAsset(input) ==
    IF input.NoiseThreshold = 0 /\ input.AssetID = "" THEN 10 ELSE input.NoiseThreshold

\* noiseThreshold after the defaulting of zero
NoiseThresholdOf(input) ==
    IF input.NoiseThreshold = 0 THEN 10 ELSE input.NoiseThreshold

\* lines 105-122: the samples of the frames in which no channel is above
\* the threshold value, in order
RECURSIVE SilentSegmentSamples(_, _, _, _)
SilentSegmentSamples(samples, channels, thresholdValue, i) ==
    IF i < Len(samples)
    THEN LET last == IF i + channels < Len(samples) THEN i + channels ELSE Len(samples)
             frame == SubSeq(samples, i + 1, last)
             rest == SilentSegmentSamples(samples, channels, thresholdValue, i + channels)
         IN  IF \A k \in 1..Len(frame) : Abs(frame[k]) <= thresholdValue
             THEN frame \o rest
             ELSE rest
    ELSE <<>>

\* SamplesBelowThreshold with absValue < thresholdValue in place of <=
SamplesStrictlyBelowThreshold(samples, thresholdValue) ==
    LET Quiet(x) == Abs(x) < thresholdValue
    IN  SelectSeq(samples, Quiet)

\* lines 125-133: the samples that are not above the threshold value
SamplesBelowThreshold(samples, thresholdValue) ==
    LET Quiet(x) == Abs(x) <= thresholdValue
    IN  SelectSeq(samples, Quiet)

\* NoiseSamples that takes the silent frames in both modes
NoiseSamplesAlwaysSegments(samples, channels, thresholdValue, useSilentSegments) ==
    SilentSegmentSamples(samples, channels, thresholdValue, 0)

\* lines 100-134
NoiseSamples(samples, channels, thresholdValue, useSilentSegments) ==
    IF useSilentSegments
    THEN SilentSegmentSamples(samples, channels, thresholdValue, 0)
    ELSE SamplesBelowThreshold(samples, thresholdValue)

NilSNROutput ==
    [ok |-> FALSE, SNR |-> Decibels(0), SignalPower |-> RatZero, NoisePower |-> RatZero,
     SignalRMS |-> Sqrt(RatZero), NoiseRMS |-> Sqrt(RatZero)]

\* lines 82-177 without the check for an empty buffer
SNROutputOf(samples, channels, input) ==
    LET thresholdValue == ThresholdValue(NoiseThresholdOf(input))
        signalPower == IF Len(samples) > 0
                       THEN Rat(SumSquared(samples), Len(samples))
                       ELSE RatZero
        signalRMS == IF signalPower.num > 0 THEN Sqrt(signalPower) ELSE Sqrt(RatZero)
        noiseSamples == NoiseSamples(samples, channels, thresholdValue, input.UseSilentSegments)
        noisePower == IF Len(noiseSamples) > 0
                      THEN Rat(SumSquared(noiseSamples), Len(noiseSamples))
                      ELSE RatOne
        noiseRMS == IF Len(noiseSamples) > 0
                    THEN IF noisePower.num > 0 THEN Sqrt(noisePower) ELSE Sqrt(RatZero)
                    ELSE Sqrt(RatOne)
        snr == IF noisePower.num > 0 /\ signalPower.num > 0
               THEN TenLog10(RatDiv(signalPower, noisePower))
               ELSE IF signalPower.num > 0 THEN Decibels(120) ELSE Decibels(0)
    IN  [ok |-> TRUE, SNR |-> snr, SignalPower |-> signalPower, NoisePower |-> noisePower,
         SignalRMS |-> signalRMS, NoiseRMS |-> noiseRMS]

\* ComputeSNR without the else-if branch of lines 164-168: snr keeps its
\* initial 0.0 when noisePower is 0
SNROutputNoClamp(samples, channels, input) ==
    LET output == SNROutputOf(samples, channels, input)
    IN  IF Len(samples) = 0 THEN NilSNROutput
        ELSE IF output.NoisePower.num = 0 /\ output.SignalPower.num > 0
             THEN [output EXCEPT !.SNR = Decibels(0)]
             ELSE output

\* ComputeSNR without the else branch of lines 150-155: with no noise
\* sample noisePower and noiseRMS keep their initial 0.0
SNROutputZeroFloor(samples, channels, input) ==
    LET output == SNROutputOf(samples, channels, input)
        noiseSamples == NoiseSamples(samples, channels,
                                     ThresholdValue(NoiseThresholdOf(input)),
                                     input.UseSilentSegments)
    IN  IF Len(samples) = 0 THEN NilSNROutput
        ELSE IF Len(noiseSamples) > 0 THEN output
        ELSE [output EXCEPT !.NoisePower = RatZero, !.NoiseRMS = Sqrt(RatZero),
                            !.SNR = IF output.SignalPower.num > 0
                                    THEN Decibels(120) ELSE Decibels(0)]

\* ComputeSNR that goes on with an empty buffer
SNROutputNoEmptyCheck(samples, channels, input) == SNROutputOf(samples, channels, input)

\* lines 71-177: the result computed from the decoded samples; an empty
\* buffer is an error
SNROutput(samples, channels, input) ==
    IF Len(samples) = 0 THEN NilSNROutput ELSE SNROutputOf(samples, channels, input)

\* FeatureOf that gives every record the same id
FeatureOfConstantID(featureID, input, output) ==
    [ID |-> 1, AssetID |-> input.AssetID, FeatureType |-> "snr",
     FeatureData |-> [snr |-> output.SNR, signal_power |-> output.SignalPower,
                      noise_power |-> output.NoisePower, signal_rms |-> output.SignalRMS,
                      noise_rms |-> output.NoiseRMS],
     ComputationParams |-> [noise_threshold |-> NoiseThresholdOf(input),
                            use_silent_segments |-> input.UseSilentSegments]]

\* lines 179-205: the database.Feature built from a result
FeatureOf(featureID, input, output) ==
    [ID |-> featureID, AssetID |-> input.AssetID, FeatureType |-> "snr",
     FeatureData |-> [snr |-> output.SNR, signal_power |-> output.SignalPower,
                      noise_power |-> output.NoisePower, signal_rms |-> output.SignalRMS,
                      noise_rms |-> output.NoiseRMS],
     ComputationParams |-> [noise_threshold |-> NoiseThresholdOf(input),
                            use_silent_segments |-> input.UseSilentSegments]]

NoSnrLocals == [decoded |-> FALSE, samples |-> <<>>, channels |-> 0]

\* ComputeSNR when the file opens and decodes: lines 21-214. An error of
\* InsertFeature is logged and the result is returned all the same.
ComputeSNR ==
    /\ sPc = "call"
    /\ disk[sIn.FilePath] # 0
    /\ inode[disk[sIn.FilePath]].kind = "wav"
    /\ LET f == inode[disk[sIn.FilePath]]
           output == SNROutput(f.data, f.channels, sIn)
       IN  /\ sLoc' = [decoded |-> TRUE, samples |-> f.data, channels |-> f.channels]
           /\ sOut' = output
           /\ IF output.ok /\ sIn.AssetID # "" /\ dbClient
              THEN \E insertOk \in BOOLEAN :
                      features' = IF insertOk
                                  THEN Append(features, FeatureOf(sCalls + 1, sIn, output))
                                  ELSE features
              ELSE UNCHANGED features
    /\ sPc' = "done"
    /\ sCalls' = sCalls + 1
    /\ UNCHANGED <<sIn, dbClient, fsVars, outsideSnr>>

\* os.Open, file.Stat, file.Seek, IsValidFile or FullPCMBuffer fails:
\* ComputeSNR returns nil and the error
ComputeSNRFail ==
    /\ sPc = "call"
    /\ sLoc' = NoSnrLocals
    /\ sOut' = NilSNROutput
    /\ sPc' = "done"
    /\ sCalls' = sCalls + 1
    /\ UNCHANGED <<sIn, dbClient, features, fsVars, outsideSnr>>

\* ------------------------------------------------------------------------
\* Idle values of the parts a specification does not use
\* ------------------------------------------------------------------------
RangeIdle == rIn = [samples |-> <<>>, channels |-> 1, threshold |-> 10,
                    sampleRate |-> 1000, minSilenceDuration |-> 100]
             /\ rPc = "idle" /\ rOut = <<0, 0>>

NoInput == [AssetID |-> "", SourcePath |-> NoPath, SilenceThreshold |-> 0,
            MinSilenceDuration |-> 0]

FsIdle == /\ disk = [path \in Paths |-> 0]
          /\ inode = [i \in Inodes |-> NoContent]
          /\ now = 0

NoSnrInput == [AssetID |-> "", FilePath |-> NoPath, NoiseThreshold |-> 0,
               UseSilentSegments |-> FALSE]

SnrIdle == /\ sIn = NoSnrInput
           /\ sPc = "idle"
           /\ sLoc = NoSnrLocals
           /\ sOut = NilSNROutput
           /\ sCalls = 0
           /\ dbClient = FALSE
           /\ features = <<>>

TrimIdle == /\ tIn = [p \in Procs |-> NoInput]
            /\ tPc = [p \in Procs |-> "idle"]
            /\ tLoc = [p \in Procs |-> NoLocals]
            /\ tRes = [p \in Procs |-> NilOutput]

\* the zero AssetInfo
NoAsset ==
    [AssetID |-> "", FilePath |-> NoPath, ContentHash |-> NoHash,
     Metadata |-> [SampleRate |-> 0, Duration |-> RatZero, Channels |-> 0]]

\* ingestOutput before IngestRawAudio has returned a result
NilIngestOutput == [ok |-> FALSE, Asset |-> NoAsset]

\* the workflow has not returned
NoWorkflowResult ==
    [returned |-> FALSE, ok |-> FALSE, IngestedAsset |-> NoAsset, TrimmedOutput |-> NilOutput]

WfIdle == /\ wfIn = [FilePath |-> NoPath]
          /\ wfPc = "idle"
          /\ wfRunning = "none"
          /\ wfAttempts = [IngestRawAudio |-> 0, TrimSilence |-> 0]
          /\ wfTrimIn = NoInput
          /\ wfIngestOut = NilIngestOutput
          /\ wfTrimOut = NilOutput
          /\ wfResult = NoWorkflowResult

RunIdle == /\ routines = <<>>
           /\ rtPc = <<>>
           /\ sent = <<>>
           /\ ctxCancelled = FALSE
           /\ errChan = <<>>
           /\ mainWg = 0
           /\ sig = "none"
           /\ mainPc = "idle"
           /\ closed = <<>>
           /\ twPc = "notStarted"
           /\ wCtxCancelled = FALSE

\* ------------------------------------------------------------------------
\* Specification of findNonSilentRange called on its own
\* ------------------------------------------------------------------------
RangeInit ==
    /\ rIn \in RangeInputs
    /\ rPc = "call"
    /\ rOut = <<0, 0>>
    /\ FsIdle
    /\ TrimIdle
    /\ SnrIdle
    /\ WfIdle
    /\ RunIdle

CallFindNonSilentRange ==
    /\ rPc = "call"
    /\ rOut' = findNonSilentRange(rIn.samples, rIn.channels, rIn.threshold,
                                  rIn.sampleRate, rIn.minSilenceDuration)
    /\ rPc' = "done"
    /\ UNCHANGED <<rIn, outsideRange>>

RangeNext == CallFindNonSilentRange

SpecRange == RangeInit /\ [][RangeNext]_vars

\* ------------------------------------------------------------------------
\* Specification of one TrimSilence invocation
\* ------------------------------------------------------------------------
\* Source files: whole frames, values inside the range of their bit depth
TrimSamples(bitDepth) == IF bitDepth = 16 THEN {0, 20000} ELSE {0, 40000}

BuffersOf(channels, bitDepth) ==
    UNION {[1..(channels * n) -> TrimSamples(bitDepth)] : n \in 0..TrimMaxFrames}

SourceFiles ==
    UNION {{WavFile(1000, fmt.channels, fmt.bitDepth, data) :
                data \in BuffersOf(fmt.channels, fmt.bitDepth)} :
           fmt \in [channels : {1, 2}, bitDepth : {16, 24}]}

\* a plain file, and a file that carries the name TrimSilence would give
\* to an output for asset "x" in second 0
SourcePaths == {Path(d, n) : d \in Dirs, n \in {PlainName("a"), TrimmedName("x", 0)}}

TrimInputs ==
    [AssetID : AssetIDs, SourcePath : SourcePaths,
     SilenceThreshold : {0, 1000}, MinSilenceDuration : {0, 2}]

TrimInit ==
    /\ RangeIdle
    /\ SnrIdle
    /\ WfIdle
    /\ RunIdle
    /\ now = 0
    /\ \E input \in TrimInputs, f \in SourceFiles :
          /\ tIn = [p \in Procs |-> IF p = 1 THEN input ELSE NoInput]
          /\ disk = [path \in Paths |-> IF path = input.SourcePath THEN 1 ELSE 0]
          /\ inode = [i \in Inodes |-> IF i = 1 THEN f ELSE NoContent]
    /\ tPc = [p \in Procs |-> IF p = 1 THEN "open" ELSE "idle"]
    /\ tLoc = [p \in Procs |-> NoLocals]
    /\ tRes = [p \in Procs |-> NilOutput]

TrimNext ==
    \/ \E p \in Procs : TrimOpenDecode(p)
    \/ \E p \in Procs : TrimNoOp(p)
    \/ \E p \in Procs : TrimCreate(p)
    \/ \E p \in Procs : TrimWrite(p)
    \/ \E p \in Procs : TrimClose(p)
    \/ \E p \in Procs : TrimHashOutput(p)
    \/ \E p \in Procs : TrimHashOriginal(p)
    \/ \E p \in Procs : TrimCompare(p)
    \/ \E p \in Procs : TrimFail(p)
    \/ Tick

SpecTrim == TrimInit /\ [][TrimNext]_vars

\* ------------------------------------------------------------------------
\* Specification of two concurrent TrimSilence invocations over different
\* source files
\* ------------------------------------------------------------------------
ConcFiles ==
    {WavFile(1000, 1, 16, data) :
        data \in {<<0, 20000, 0>>, <<20000, 0>>, <<20000, 20000, 0>>, <<20000, 20000>>}}

ConcPaths == {Path(d, n) : d \in Dirs, n \in {PlainName("a"), PlainName("b")}}

ConcInit ==
    /\ RangeIdle
    /\ SnrIdle
    /\ WfIdle
    /\ RunIdle
    /\ now = 0
    /\ \E src \in [Procs -> ConcPaths], id \in [Procs -> AssetIDs], f \in [Procs -> ConcFiles] :
          /\ src[1] # src[2]
          /\ tIn = [p \in Procs |-> [AssetID |-> id[p], SourcePath |-> src[p],
                                     SilenceThreshold |-> 0, MinSilenceDuration |-> 0]]
          /\ disk = [path \in Paths |-> IF \E p \in Procs : path = src[p]
                                        THEN CHOOSE p \in Procs : path = src[p]
                                        ELSE 0]
          /\ inode = [i \in Inodes |-> IF i \in Procs THEN f[i] ELSE NoContent]
    /\ tPc = [p \in Procs |-> "open"]
    /\ tLoc = [p \in Procs |-> NoLocals]
    /\ tRes = [p \in Procs |-> NilOutput]

SpecConc == ConcInit /\ [][TrimNext]_vars

\* ------------------------------------------------------------------------
\* Specification of ComputeSNR called repeatedly on one file
\* ------------------------------------------------------------------------
\* sample values on both sides of the threshold value 327
SnrSamples == {0, -327, 328}

SnrFiles ==
    UNION {{WavFile(1000, ch, 16, data) :
                data \in UNION {[1..(ch * n) -> SnrSamples] : n \in 0..SnrMaxFrames}} :
           ch \in {1, 2}}

SnrParams ==
    [AssetID : AssetIDs, NoiseThreshold : {0, 1000}, UseSilentSegments : BOOLEAN]

SnrInputOf(params, filePath) ==
    [AssetID |-> params.AssetID, FilePath |-> filePath,
     NoiseThreshold |-> params.NoiseThreshold,
     UseSilentSegments |-> params.UseSilentSegments]

SnrPath == Path("d1", PlainName("a"))

SnrInit ==
    /\ RangeIdle
    /\ TrimIdle
    /\ WfIdle
    /\ RunIdle
    /\ now = 0
    /\ disk = [path \in Paths |-> IF path = SnrPath THEN 1 ELSE 0]
    /\ \E f \in SnrFiles : inode = [i \in Inodes |-> IF i = 1 THEN f ELSE NoContent]
    /\ \E params \in SnrParams : sIn = SnrInputOf(params, SnrPath)
    /\ sPc = "call"
    /\ sLoc = NoSnrLocals
    /\ sOut = NilSNROutput
    /\ sCalls = 0
    /\ dbClient \in BOOLEAN
    /\ features = <<>>

\* the activity is called again, on the same file
NextSNRCall ==
    /\ sPc = "done"
    /\ sCalls < MaxCalls
    /\ \E params \in SnrParams : sIn' = SnrInputOf(params, sIn.FilePath)
    /\ sPc' = "call"
    /\ UNCHANGED <<sLoc, sOut, sCalls, dbClient, features, fsVars, outsideSnr>>

SnrNext ==
    \/ ComputeSNR
    \/ ComputeSNRFail
    \/ NextSNRCall

SpecSNR == SnrInit /\ [][SnrNext]_vars

\* ------------------------------------------------------------------------
\* Properties of findNonSilentRange
\* ------------------------------------------------------------------------
RangeDone == rPc = "done"

FrameOffsets(samples, channels) == {i \in 0..(Len(samples) - 1) : i % channels = 0}

LoudFrames(samples, channels, thresholdValue) ==
    {i \in FrameOffsets(samples, channels) : ~IsSilentAt(samples, channels, thresholdValue, i)}

\* C10: for every buffer with at least one non-silent frame, the start
\* returned by findNonSilentRange is the offset of the first non-silent
\* frame, also when that frame is the last frame of the buffer.
StartIsFirstNonSilentFrame ==
    LET loud == LoudFrames(rIn.samples, rIn.channels, ThresholdValue(rIn.threshold))
    IN  (RangeDone /\ loud # {}) => rOut[1] = Min(loud)

\* ------------------------------------------------------------------------
\* Properties of TrimSilence
\* ------------------------------------------------------------------------
\* the invocation returned a result and no error
Returned(p) == tPc[p] = "done" /\ tRes[p].ok

\* the invocation has decoded its source file
Decoded(p) == tLoc[p].file # 0

\* the invocation has created its output file
Created(p) == tLoc[p].outputFile # 0

\* the source file as the invocation decoded it
DecodedFile(p) ==
    WavFile(tLoc[p].sampleRate, tLoc[p].channels, tLoc[p].bitDepth, tLoc[p].samples)

\* the bytes the invocation encodes
TrimmedBytes(p) ==
    Encode(tLoc[p].sampleRate, tLoc[p].channels,
           Slice(tLoc[p].samples, tLoc[p].startIdx, tLoc[p].endIdx))

FullRange(p) == tLoc[p].startIdx = 0 /\ tLoc[p].endIdx = Len(tLoc[p].samples)

EqualHashes(p) == tLoc[p].contentHash = tLoc[p].originalHash

FirstAndLastLoud(p) ==
    LET l == tLoc[p]
        T == ThresholdValue(SilenceThresholdOf(tIn[p]))
    IN  /\ Len(l.samples) > 0
        /\ ~IsSilentAt(l.samples, l.channels, T, 0)
        /\ ~IsSilentAt(l.samples, l.channels, T, Len(l.samples) - l.channels)

\* C4: when the first and the last frame are both non-silent,
\* findNonSilentRange returns (0, len(samples)) and TrimSilence returns
\* wasTrimmed = false, noOp = true, contentHash = SHA-256 of the original
\* file, empty outputPath and newAssetId, and creates no output file.
NothingToTrimIsNoOp ==
    \A p \in Procs :
        (Decoded(p) /\ FirstAndLastLoud(p))
            => /\ FullRange(p)
               /\ ~Created(p)
               /\ \A path \in Paths : path # tIn[p].SourcePath => disk[path] = 0
               /\ Returned(p) => tRes[p] = NoTrimOutput(Sha256(DecodedFile(p)))

NothingToTrimReturned ==
    \E p \in Procs :
        /\ Returned(p) /\ Decoded(p) /\ FirstAndLastLoud(p)
        /\ Len(tLoc[p].samples) >= 2 * tLoc[p].channels

\* C5: in every result returned successfully, newAssetId is non-empty iff
\* wasTrimmed is true and noOp is false.
NewAssetIdIffTrimmedAndNotNoOp ==
    \A p \in Procs :
        Returned(p) => ((tRes[p].NewAssetID # "") <=> (tRes[p].WasTrimmed /\ ~tRes[p].NoOp))

NewAssetReturned ==
    \E p \in Procs : Returned(p) /\ tRes[p].NewAssetID # ""

\* C6: on a successful return a file written by this invocation is at
\* outputPath if outputPath is non-empty, and no file written by this
\* invocation remains on disk if outputPath is empty.
OutputPathIffFileMaterialized ==
    \A p \in Procs :
        Returned(p) =>
            /\ tRes[p].OutputPath # NoPath =>
                  /\ disk[tRes[p].OutputPath] = tLoc[p].outputFile
                  /\ inode[tLoc[p].outputFile] = TrimmedBytes(p)
            /\ (tRes[p].OutputPath = NoPath /\ Created(p)) =>
                  disk[tLoc[p].outputPath] # tLoc[p].outputFile

\* C7: a new asset id is allocated only when the hash of the re-encoded file
\* differs from the hash of the source file; the result is then contentHash =
\* newHash, wasTrimmed = true, noOp = false and the encoded file is kept at
\* outputPath. With equal hashes no new asset id is produced.
NewAssetOnlyWhenHashesDiffer ==
    \A p \in Procs :
        Returned(p) =>
            /\ tRes[p].NewAssetID # "" =>
                  /\ Created(p) /\ ~EqualHashes(p)
                  /\ tRes[p].ContentHash = Sha256(TrimmedBytes(p))
                  /\ tRes[p].ContentHash # Sha256(DecodedFile(p))
                  /\ tRes[p].WasTrimmed /\ ~tRes[p].NoOp
                  /\ tRes[p].OutputPath = tLoc[p].outputPath
                  /\ disk[tRes[p].OutputPath] # 0
                  /\ Sha256(inode[disk[tRes[p].OutputPath]]) = tRes[p].ContentHash
            /\ (Created(p) /\ EqualHashes(p)) => tRes[p].NewAssetID = ""
            /\ (Created(p) /\ ~EqualHashes(p)) => tRes[p].NewAssetID # ""

NewAssetKept ==
    \E p \in Procs :
        /\ Returned(p) /\ tRes[p].NewAssetID # ""
        /\ disk[tRes[p].OutputPath] = tLoc[p].outputFile

\* C8: the trimmed file written by TrimSilence has the sample rate, the
\* channel count and the bit depth of the source file.
TrimmedFileKeepsFormat ==
    \A p \in Procs :
        (Created(p) /\ inode[tLoc[p].outputFile].kind = "wav")
            => /\ inode[tLoc[p].outputFile].sampleRate = tLoc[p].sampleRate
               /\ inode[tLoc[p].outputFile].channels = tLoc[p].channels
               /\ inode[tLoc[p].outputFile].bitDepth = tLoc[p].bitDepth

\* what TrimSilence returns as contentHash when it runs alone on a source
\* file that is not its own output path
AloneHash(p) ==
    IF FullRange(p) THEN Sha256(DecodedFile(p)) ELSE Sha256(TrimmedBytes(p))

\* C9: concurrent invocations over different source files never create,
\* write or delete the same output path, and each returns the contentHash
\* and leaves the output file it would when run alone.
ConcurrentTrimsIndependent ==
    \A p \in Procs : \A q \in Procs \ {p} :
        /\ (Created(p) /\ Created(q)) => tLoc[p].outputPath # tLoc[q].outputPath
        /\ Returned(p) =>
              /\ tRes[p].ContentHash = AloneHash(p)
              /\ tRes[p].OutputPath # NoPath =>
                    /\ disk[tRes[p].OutputPath] = tLoc[p].outputFile
                    /\ inode[tLoc[p].outputFile] = TrimmedBytes(p)
\* ------------------------------------------------------------------------
\* Properties of ComputeSNR
\* ------------------------------------------------------------------------
\* the last call decoded an empty sample buffer and has returned
SnrEmptyBufferReturned ==
    sPc = "done" /\ sLoc.decoded /\ Len(sLoc.samples) = 0

\* C2 as stated: on an empty decoded buffer ComputeSNR succeeds with snr,
\* signalPower, noisePower, signalRMS and noiseRMS all 0.
EmptyBufferYieldsZeros ==
    SnrEmptyBufferReturned =>
        sOut = [ok |-> TRUE, SNR |-> Decibels(0), SignalPower |-> RatZero,
                NoisePower |-> RatZero, SignalRMS |-> Sqrt(RatZero),
                NoiseRMS |-> Sqrt(RatZero)]

\* C2 (amended): ComputeSNR on a file whose decoded sample buffer is empty
\* fails: it returns an error ("audio file contains no samples") and no
\* result.
EmptyBufferIsAnError ==
    SnrEmptyBufferReturned => (~sOut.ok /\ sOut = NilSNROutput)

\* ------------------------------------------------------------------------
\* Further properties of findNonSilentRange
\* ------------------------------------------------------------------------
\* the buffer of the call is not empty and holds whole frames
WholeFrames == Len(rIn.samples) > 0 /\ Len(rIn.samples) % rIn.channels = 0

\* round(sampleRate x minSilenceDuration), duration in milliseconds
RoundedSilenceFrames(sampleRate, durationMs) == (sampleRate * durationMs + 500) \div 1000

\* the frames, scanning backward from the last one down to startIdx, at
\* which the stop rule of C11 applies: the frame is not silent, or it is the
\* minFrames-th consecutive silent frame
StopRuleFrames(samples, channels, thresholdValue, minFrames, startIdx) ==
    LET first == Len(samples) - channels
        visited == {i \in startIdx..first : (first - i) % channels = 0}
        seen(i) == (first - i) \div channels + 1
    IN  {i \in visited : \/ ~IsSilentAt(samples, channels, thresholdValue, i)
                         \/ seen(i) >= minFrames}

\* C11: scanning backward from the last frame, findNonSilentRange stops at
\* the first frame that is not silent or at which the number of consecutive
\* silent frames reaches round(sampleRate x minSilenceDuration), for every
\* channel count, and end is one frame past the last frame examined.
EndStopsAtSilenceFrames ==
    LET T == ThresholdValue(rIn.threshold)
        stops == StopRuleFrames(rIn.samples, rIn.channels, T,
                                RoundedSilenceFrames(rIn.sampleRate, rIn.minSilenceDuration),
                                StartLoop(rIn.samples, rIn.channels, T))
    IN  (RangeDone /\ WholeFrames /\ stops # {}) => rOut[2] = Max(stops) + rIn.channels

\* ------------------------------------------------------------------------
\* Further properties of TrimSilence
\* ------------------------------------------------------------------------
\* encoder.Write of the invocation has succeeded
Written(p) ==
    \/ tPc[p] \in {"close", "hashOutput", "hashOriginal", "compare"}
    \/ Returned(p) /\ Created(p)

\* the positions of the decoded buffer that lie outside [startIdx, endIdx)
OutsideRange(p) ==
    {k \in 1..Len(tLoc[p].samples) : k <= tLoc[p].startIdx \/ k > tLoc[p].endIdx}

\* C12: every sample outside the range returned by findNonSilentRange has
\* absolute value <= T, and what TrimSilence encodes is the contiguous slice
\* samples[start:end], no value changed or reordered (the 16-bit encoder
\* stores each value of the slice, in order, as int16; a 16-bit source is
\* stored unchanged).
TrimRemovesOnlySilence ==
    \A p \in Procs :
        /\ Decoded(p) =>
              \A k \in OutsideRange(p) :
                  Abs(tLoc[p].samples[k]) <= ThresholdValue(SilenceThresholdOf(tIn[p]))
        /\ (Written(p) /\ inode[tLoc[p].outputFile].kind \in {"partial", "wav"}) =>
              LET slice == SubSeq(tLoc[p].samples, tLoc[p].startIdx + 1, tLoc[p].endIdx)
                  data == inode[tLoc[p].outputFile].data
              IN  /\ Len(data) = tLoc[p].endIdx - tLoc[p].startIdx
                  /\ \A k \in 1..Len(data) : data[k] = ToInt16(slice[k])
                  /\ tLoc[p].bitDepth = 16 => data = slice

\* a 16-bit source was trimmed at both ends and the slice written
BothEndsTrimmedAndWritten ==
    \E p \in Procs :
        /\ Returned(p) /\ Created(p) /\ tLoc[p].bitDepth = 16
        /\ tLoc[p].startIdx > 0 /\ tLoc[p].endIdx < Len(tLoc[p].samples)
        /\ inode[tLoc[p].outputFile].kind = "wav"

\* C12 for findNonSilentRange on its own: every sample outside the returned
\* range has absolute value <= T
OutsideReturnedRangeIsSilent ==
    RangeDone =>
        \A k \in 1..Len(rIn.samples) :
            (k <= rOut[1] \/ k > rOut[2]) =>
                Abs(rIn.samples[k]) <= ThresholdValue(rIn.threshold)

\* the boundaries the two scans of findNonSilentRange give for the decoded
\* buffer, before the guard on endIdx <= startIdx
ScanOf(p) ==
    LET T == ThresholdValue(SilenceThresholdOf(tIn[p]))
        m == MinSilenceSamples(tLoc[p].sampleRate, MinSilenceDurationOf(tIn[p]))
        s == StartLoop(tLoc[p].samples, tLoc[p].channels, T)
    IN  <<s, EndLoop(tLoc[p].samples, tLoc[p].channels, T, m, s)>>

\* C13: TrimSilence never encodes an empty or negative-length buffer: every
\* output file is created for a range with startIdx < endIdx; an empty
\* decoded buffer gives the range (0,0) and the no-op result, and no file is
\* created; whenever the scans give end <= start the full range is used and
\* the result has noOp = true.
NeverEncodesEmptyBuffer ==
    \A p \in Procs :
        /\ Created(p) =>
              /\ tLoc[p].startIdx < tLoc[p].endIdx
              /\ tLoc[p].endIdx <= Len(tLoc[p].samples)
        /\ (Decoded(p) /\ Len(tLoc[p].samples) = 0) =>
              /\ tLoc[p].startIdx = 0 /\ tLoc[p].endIdx = 0
              /\ ~Created(p)
              /\ \A path \in Paths : path # tIn[p].SourcePath => disk[path] = 0
              /\ Returned(p) => tRes[p] = NoTrimOutput(Sha256(DecodedFile(p)))
        /\ (Decoded(p) /\ ScanOf(p)[2] <= ScanOf(p)[1]) =>
              /\ FullRange(p)
              /\ ~Created(p)
              /\ Returned(p) => (tRes[p].NoOp /\ ~tRes[p].WasTrimmed)

\* a file with an empty sample buffer was decoded and TrimSilence returned
EmptyBufferTrimReturned ==
    \E p \in Procs :
        /\ Returned(p) /\ Decoded(p) /\ Len(tLoc[p].samples) = 0
        /\ ScanOf(p)[2] <= ScanOf(p)[1]

\* ------------------------------------------------------------------------
\* The range returned by findNonSilentRange
\* ------------------------------------------------------------------------
AllSilent ==
    \A k \in 1..Len(rIn.samples) : Abs(rIn.samples[k]) <= ThresholdValue(rIn.threshold)

\* C14: for every non-empty buffer and every channels >= 1 the returned pair
\* satisfies 0 <= start < end <= len(samples), start is a multiple of
\* channels, and start = 0 when every sample is silent.
RangeInvariant ==
    (RangeDone /\ Len(rIn.samples) > 0) =>
        /\ 0 <= rOut[1]
        /\ rOut[1] < rOut[2]
        /\ rOut[2] <= Len(rIn.samples)
        /\ rOut[1] % rIn.channels = 0
        /\ AllSilent => rOut[1] = 0

\* an all-silent non-empty buffer was scanned
AllSilentRangeReturned ==
    RangeDone /\ Len(rIn.samples) > 0 /\ AllSilent /\ rOut[2] < Len(rIn.samples)

\* ------------------------------------------------------------------------
\* Further properties of ComputeSNR
\* ------------------------------------------------------------------------
\* ComputeSNR returned a result and no error
SnrReturned == sPc = "done" /\ sOut.ok

\* the threshold value of the call
SnrT == ThresholdValue(NoiseThresholdOf(sIn))

\* the frame offsets of the decoded buffer
SnrFrameOffsets == {i \in 0..(Len(sLoc.samples) - 1) : i % sLoc.channels = 0}

\* the positions (from 1) of the frame at offset i
SnrFrame(i) ==
    {k \in 1..Len(sLoc.samples) : i < k /\ k <= i + sLoc.channels}

\* the frame at offset i has no channel above the threshold value
SnrFrameSilent(i) == \A k \in SnrFrame(i) : Abs(sLoc.samples[k]) <= SnrT

\* the positions of the samples that satisfy the noise predicate of the mode
NoisePositions ==
    IF sIn.UseSilentSegments
    THEN UNION {SnrFrame(i) : i \in {j \in SnrFrameOffsets : SnrFrameSilent(j)}}
    ELSE {k \in 1..Len(sLoc.samples) : Abs(sLoc.samples[k]) <= SnrT}

\* C15: in both modes, when the buffer is not empty and no sample (sample
\* mode) or no frame (segment mode) satisfies the noise predicate, the result
\* has noisePower = 1.0 and noiseRMS = 1.0.
NoNoiseGivesUnitFloor ==
    (SnrReturned /\ Len(sLoc.samples) > 0 /\ NoisePositions = {})
        => /\ sOut.NoisePower = RatOne
           /\ sOut.NoiseRMS = Sqrt(RatOne)

\* ComputeSNR returned for a buffer with no noise sample
NoNoiseReturned ==
    SnrReturned /\ Len(sLoc.samples) > 0 /\ NoisePositions = {}

\* the result has noisePower = 0 with signalPower > 0
ZeroNoisePower == sOut.NoisePower.num = 0 /\ sOut.SignalPower.num > 0

\* the noise population is not empty and holds only zero samples, and some
\* sample of the buffer is not zero
DigitalSilenceNoise ==
    /\ NoisePositions # {}
    /\ \A k \in NoisePositions : sLoc.samples[k] = 0
    /\ \E k \in 1..Len(sLoc.samples) : sLoc.samples[k] # 0

\* C16 as stated: noisePower is never 0 when signalPower > 0 and the branch
\* that clamps snr to 120.0 is never taken.
ClampBranchUnreachable ==
    SnrReturned => (~ZeroNoisePower /\ sOut.SNR # Decibels(120))

\* C16 (amended): noisePower is 0 with signalPower > 0 exactly when the
\* noise population is not empty, holds only zero samples, and the buffer
\* has a non-zero sample; exactly then snr is clamped to 120.0. An empty
\* population gives the floor 1.0 and never the clamp.
ClampIffDigitalSilenceNoise ==
    SnrReturned =>
        /\ ZeroNoisePower <=> DigitalSilenceNoise
        /\ (sOut.SNR = Decibels(120)) <=> DigitalSilenceNoise
        /\ NoisePositions = {} => sOut.SNR # Decibels(120)

\* ComputeSNR returned the clamped snr
ClampReturned == SnrReturned /\ ZeroNoisePower /\ sOut.SNR = Decibels(120)

\* the positions of the samples of the silent frames
SegmentPositions ==
    UNION {SnrFrame(i) : i \in {j \in SnrFrameOffsets : SnrFrameSilent(j)}}

\* the positions of the samples that are not above the threshold value
SamplePositions == {k \in 1..Len(sLoc.samples) : Abs(sLoc.samples[k]) <= SnrT}

\* the samples of the decoded buffer at the positions S, in buffer order
SamplesAt(S) ==
    [k \in 1..Cardinality(S) |->
        sLoc.samples[CHOOSE x \in S : Cardinality({y \in S : y <= x}) = k]]

\* mean of squares of a population, 1.0 for an empty one
PowerOf(population) ==
    IF Len(population) = 0 THEN RatOne
    ELSE Rat(SumSquared(population), Len(population))

NearestInteger(thresholdMilli) == (2 * thresholdMilli * 32767 + 1000) \div 2000
TruncatedInteger(thresholdMilli) ==
    (thresholdMilli * 32767 - ((thresholdMilli * 32767) % 1000)) \div 1000

\* findNonSilentRange decided silence with the threshold value T: a start
\* after 0 is a frame with a channel above T that follows samples within T,
\* and the samples after the end are within T
RangeUsesThreshold(T) ==
    RangeDone =>
        /\ rOut[1] > 0 =>
              /\ \E k \in 1..Len(rIn.samples) :
                     /\ rOut[1] < k /\ k <= rOut[1] + rIn.channels
                     /\ Abs(rIn.samples[k]) > T
              /\ \A k \in 1..rOut[1] : Abs(rIn.samples[k]) <= T
        /\ \A k \in 1..Len(rIn.samples) : k > rOut[2] => Abs(rIn.samples[k]) <= T

\* the positions of the noise population of the mode for threshold value T
QuietPositions(T) ==
    IF sIn.UseSilentSegments
    THEN UNION {SnrFrame(i) :
                   i \in {j \in SnrFrameOffsets :
                             \A k \in SnrFrame(j) : Abs(sLoc.samples[k]) <= T}}
    ELSE {k \in 1..Len(sLoc.samples) : Abs(sLoc.samples[k]) <= T}

\* ComputeSNR selected its noise population with the threshold value T
SnrUsesThreshold(T) ==
    SnrReturned => sOut.NoisePower = PowerOf(SamplesAt(QuietPositions(T)))

\* C18 as stated: both functions use T = threshold x 32767 rounded to the
\* nearest integer, and a frame is silent iff every channel has
\* |sample| <= T.
UsesNearestIntegerThreshold ==
    /\ RangeUsesThreshold(NearestInteger(rIn.threshold))
    /\ SnrUsesThreshold(NearestInteger(sIn.NoiseThreshold))

\* C18 (amended): both functions use T = threshold x 32767 truncated to an
\* integer (0.01 gives 327), ComputeSNR after replacing a threshold of 0 by
\* 0.01, and a frame is silent iff every channel has |sample| <= T.
UsesTruncatedThreshold ==
    /\ RangeUsesThreshold(TruncatedInteger(rIn.threshold))
    /\ SnrUsesThreshold(TruncatedInteger(NoiseThresholdOf(sIn)))

\* findNonSilentRange returned a start whose frame is above the truncated
\* threshold value and within the nearest integer
StartBetweenTruncatedAndNearest ==
    /\ RangeDone /\ rOut[1] > 0
    /\ \A k \in 1..Len(rIn.samples) :
           (rOut[1] < k /\ k <= rOut[1] + rIn.channels)
               => Abs(rIn.samples[k]) <= NearestInteger(rIn.threshold)

\* ------------------------------------------------------------------------
\* Determinism of ComputeSNR
\* ------------------------------------------------------------------------
\* the five figures of a result
FiguresOf(output) ==
    [snr |-> output.SNR, signal_power |-> output.SignalPower,
     noise_power |-> output.NoisePower, signal_rms |-> output.SignalRMS,
     noise_rms |-> output.NoiseRMS]

\* the feature records of earlier runs with the noiseThreshold and
\* useSilentSegments of the last call
SameParamsFeatures ==
    {i \in 1..Len(features) :
        features[i].ComputationParams =
            [noise_threshold |-> NoiseThresholdOf(sIn),
             use_silent_segments |-> sIn.UseSilentSegments]}

FeatureStored == \E i \in 1..Len(features) : features[i].ID = sCalls

\* C20: every failure inside TrimSilence or ComputeSNR makes the operation
\* return an error and no result, none is ignored or only logged: a call that
\* returned a result had no failing step, so a ComputeSNR that had to insert
\* its feature record has inserted it, and a TrimSilence that had to remove
\* its output file in the equal-hash branch has removed it.
AllErrorsSurfaced ==
    /\ (SnrReturned /\ sIn.AssetID # "" /\ dbClient) => FeatureStored
    /\ \A p \in Procs :
          (Returned(p) /\ Created(p) /\ EqualHashes(p)) => tLoc[p].removed

\* ------------------------------------------------------------------------
\* The feature records written by ComputeSNR
\* ------------------------------------------------------------------------
\* this step is a call of ComputeSNR that returns a result
SnrSucceeds == sPc = "call" /\ sPc' = "done" /\ sOut'.ok

FeatureIDs == {features[i].ID : i \in 1..Len(features)}

\* this step adds one record, with a fresh id, featureType "snr", the
\* assetId of the call and the figures of its result, and leaves the
\* existing records as they are
OneFeatureAdded ==
    /\ Len(features') = Len(features) + 1
    /\ SubSeq(features', 1, Len(features)) = features
    /\ LET new == features'[Len(features')]
       IN  /\ new.ID \notin FeatureIDs
           /\ new.FeatureType = "snr"
           /\ new.AssetID = sIn.AssetID
           /\ new.FeatureData = FiguresOf(sOut')

\* C21 as stated: every successful ComputeSNR creates exactly one new
\* Feature record and leaves the existing records alone, so n successful
\* computations give n records.
EverySuccessAddsOneFeature ==
    [][SnrSucceeds => OneFeatureAdded]_vars

\* C21 (amended): records are only ever appended, one at a time, by a
\* successful ComputeSNR that has an assetId and a database client; the new
\* record has a fresh id, featureType "snr", the assetId and the figures of
\* the call; a successful call without assetId or without client adds none
\* (nor one whose insert fails), so n successful computations give at most n
\* records; no record is updated or deleted.
FeaturesOnlyAppended ==
    [][/\ features' # features =>
             (SnrSucceeds /\ sIn.AssetID # "" /\ dbClient /\ OneFeatureAdded)
       /\ (SnrSucceeds /\ (sIn.AssetID = "" \/ ~dbClient)) => features' = features
       /\ Len(features') <= sCalls']_vars

\* the same asset has two feature records
TwoFeaturesOfOneAsset ==
    /\ Len(features) >= 2
    /\ features[1].AssetID = features[2].AssetID
    /\ features[1].ID # features[2].ID

\* ------------------------------------------------------------------------
\* How much findNonSilentRange removes
\* ------------------------------------------------------------------------
\* k = ceil(m / channels) for m = int(sampleRate * minSilenceDuration)
SilenceFramesNeeded ==
    LET m == MinSilenceSamples(rIn.sampleRate, rIn.minSilenceDuration)
    IN  (m + rIn.channels - 1) \div rIn.channels

\* at most max(k - 1, 0) frames are removed from the end of the buffer
BoundedTrailingTrim ==
    RangeDone =>
        rOut[2] >= Len(rIn.samples) - Max({SilenceFramesNeeded - 1, 0}) * rIn.channels

\* when the buffer has a non-silent frame, the returned range begins with a
\* non-silent frame: no leading silence is left
LeadingSilenceRemoved ==
    LET T == ThresholdValue(rIn.threshold)
    IN  (RangeDone /\ LoudFrames(rIn.samples, rIn.channels, T) # {})
            => ~IsSilentAt(rIn.samples, rIn.channels, T, rOut[1])

\* C22: findNonSilentRange removes at most max(k - 1, 0) frames from the end
\* of the buffer, k = ceil(int(sampleRate x minSilenceDuration) / channels),
\* so longer trailing silence is shortened and not removed, while leading
\* silence of any length is removed entirely.
TrailingTrimBoundedLeadingTrimComplete ==
    BoundedTrailingTrim /\ LeadingSilenceRemoved

\* C23: applying findNonSilentRange with the same parameters to the slice
\* samples[start:end] it returned gives the full range of that slice, so
\* TrimSilence on an already trimmed asset takes the no-op branch.
TrimIsIdempotent ==
    RangeDone =>
        findNonSilentRange(Slice(rIn.samples, rOut[1], rOut[2]), rIn.channels,
                           rIn.threshold, rIn.sampleRate, rIn.minSilenceDuration)
            = <<0, rOut[2] - rOut[1]>>

\* ------------------------------------------------------------------------
\* One call of ComputeSNR with a noise threshold in (0,1]
\* ------------------------------------------------------------------------
\* noise thresholds 0.001, 0.01 and 1.0
SnrOnceParams ==
    [AssetID : AssetIDs, NoiseThreshold : {1, 10, 1000}, UseSilentSegments : BOOLEAN]

SnrOnceInit ==
    /\ RangeIdle
    /\ TrimIdle
    /\ WfIdle
    /\ RunIdle
    /\ now = 0
    /\ disk = [path \in Paths |-> IF path = SnrPath THEN 1 ELSE 0]
    /\ \E f \in SnrFiles : inode = [i \in Inodes |-> IF i = 1 THEN f ELSE NoContent]
    /\ \E params \in SnrOnceParams : sIn = SnrInputOf(params, SnrPath)
    /\ sPc = "call"
    /\ sLoc = NoSnrLocals
    /\ sOut = NilSNROutput
    /\ sCalls = 0
    /\ dbClient \in BOOLEAN
    /\ features = <<>>

SnrOnceNext ==
    \/ ComputeSNR
    \/ ComputeSNRFail

SpecSnrOnce == SnrOnceInit /\ [][SnrOnceNext]_vars

\* the sums of squares and the counts of the buffer and of the samples
\* within the threshold value
SumAll == SumSquared(sLoc.samples)
SumNoise == SumSquared(SamplesAt(SamplePositions))
NoiseCount == Cardinality(SamplePositions)

\* C24: in sample mode with a noise threshold in (0,1] ComputeSNR never
\* returns a negative snr: for every non-empty buffer noisePower <=
\* signalPower whenever signalPower > 0; over the integers, (sum of all
\* squares) x (noise count) >= (sum of noise squares) x (sample count), and
\* signalPower >= 1 when the noise population is empty.
SampleModeSnrNotNegative ==
    (SnrReturned /\ ~sIn.UseSilentSegments /\ sIn.NoiseThreshold > 0
        /\ sOut.SignalPower.num > 0)
        => /\ sOut.NoisePower.num * sOut.SignalPower.den
                  <= sOut.SignalPower.num * sOut.NoisePower.den
           /\ SumAll * NoiseCount >= SumNoise * Len(sLoc.samples)
           /\ NoiseCount = 0 => sOut.SignalPower.num >= sOut.SignalPower.den
           /\ sOut.SNR.plus >= 0
           /\ sOut.SNR.tenLog10Of.num >= sOut.SNR.tenLog10Of.den

\* a sample-mode call returned for a buffer with noise and louder samples
SampleModeMixedReturned ==
    /\ SnrReturned /\ ~sIn.UseSilentSegments /\ sIn.NoiseThreshold = 10
    /\ 0 < NoiseCount /\ NoiseCount < Len(sLoc.samples)
    /\ SumNoise > 0

\* ------------------------------------------------------------------------
\* IngestRawAudio
\* ------------------------------------------------------------------------
\* uuid.New().String() of the n-th execution of IngestRawAudio
IngestUUID(n) == IF n = 1 THEN "asset-1" ELSE IF n = 2 THEN "asset-2" ELSE "asset-3"

\* what IngestRawAudio returns when none of its reads fails: nil and an
\* error without a valid WAV file at input.FilePath, the AssetInfo otherwise.
\* It opens the file read-only and writes nothing.
IngestRawAudio(input, assetID) ==
    IF disk[input.FilePath] = 0 \/ inode[disk[input.FilePath]].kind # "wav"
    THEN NilIngestOutput
    ELSE LET f == inode[disk[input.FilePath]]
             duration == IF f.sampleRate > 0 /\ Len(f.data) > 0
                         THEN Rat(Len(f.data), f.sampleRate * f.channels)
                         ELSE RatZero
         IN  [ok |-> TRUE,
              Asset |-> [AssetID |-> assetID, FilePath |-> input.FilePath,
                         ContentHash |-> Sha256(f),
                         Metadata |-> [SampleRate |-> f.sampleRate, Duration |-> duration,
                                       Channels |-> f.channels]]]

\* what TrimSilence returns at time t when none of its calls fails
TrimSilenceResult(input, t) ==
    IF disk[input.SourcePath] = 0 \/ inode[disk[input.SourcePath]].kind # "wav"
    THEN NilOutput
    ELSE LET f == inode[disk[input.SourcePath]]
             range == findNonSilentRange(f.data, f.channels, SilenceThresholdOf(input),
                                         f.sampleRate, MinSilenceDurationOf(input))
         IN  IF range[1] = 0 /\ range[2] = Len(f.data)
             THEN NoTrimOutput(Sha256(f))
             ELSE TrimmedOutput(Sha256(Encode(f.sampleRate, f.channels,
                                              Slice(f.data, range[1], range[2]))),
                                Sha256(f),
                                OutputPathOf(input.SourcePath, input.AssetID, t),
                                NewUUID(1))

\* ------------------------------------------------------------------------
\* AudioProcessingWorkflow
\* ------------------------------------------------------------------------
\* RetryPolicy.MaximumAttempts
MaximumAttempts == 3

\* TrimSilenceInput built from an asset with an empty AssetID
TrimInputOfNoAssetID(asset) ==
    [AssetID |-> "", SourcePath |-> asset.FilePath,
     SilenceThreshold |-> 10, MinSilenceDuration |-> 100]

\* the TrimSilenceInput of step 2: threshold 0.01, minimum silence 0.1 s
TrimInputOf(asset) ==
    [AssetID |-> asset.AssetID, SourcePath |-> asset.FilePath,
     SilenceThreshold |-> 10, MinSilenceDuration |-> 100]

\* return nil, fmt.Errorf(...)
WorkflowError ==
    [returned |-> TRUE, ok |-> FALSE, IngestedAsset |-> NoAsset, TrimmedOutput |-> NilOutput]

\* workflow.ExecuteActivity(ctx, "IngestRawAudio", ...): an attempt starts;
\* the retry policy allows MaximumAttempts of them
ExecuteIngestRawAudio ==
    /\ wfPc = "ingest" /\ wfRunning = "none"
    /\ wfAttempts.IngestRawAudio < MaximumAttempts
    /\ wfRunning' = "IngestRawAudio"
    /\ wfAttempts' = [wfAttempts EXCEPT !.IngestRawAudio = @ + 1]
    /\ UNCHANGED <<wfIn, wfPc, wfTrimIn, wfIngestOut, wfTrimOut, wfResult, fsVars, outsideWf>>

\* the attempt returns an asset: Get fills ingestOutput, the workflow goes on
IngestRawAudioReturns ==
    /\ wfRunning = "IngestRawAudio"
    /\ LET output == IngestRawAudio([FilePath |-> wfIn.FilePath],
                                    IngestUUID(wfAttempts.IngestRawAudio))
       IN  /\ output.ok
           /\ wfIngestOut' = output
    /\ wfRunning' = "none"
    /\ wfPc' = "trim"
    /\ UNCHANGED <<wfIn, wfAttempts, wfTrimIn, wfTrimOut, wfResult, fsVars, outsideWf>>

\* the attempt fails (no valid file, a failing read, a timeout): it is
\* retried, and after the last attempt Get returns the error and the
\* workflow returns nil and an error
IngestRawAudioFails ==
    /\ wfRunning = "IngestRawAudio"
    /\ wfRunning' = "none"
    /\ IF wfAttempts.IngestRawAudio < MaximumAttempts
       THEN UNCHANGED <<wfPc, wfResult>>
       ELSE wfPc' = "done" /\ wfResult' = WorkflowError
    /\ UNCHANGED <<wfIn, wfAttempts, wfTrimIn, wfIngestOut, wfTrimOut, fsVars, outsideWf>>

\* workflow.ExecuteActivity(ctx, "TrimSilence", ...) with the asset of step 1
ExecuteTrimSilence ==
    /\ wfPc = "trim" /\ wfRunning = "none"
    /\ wfAttempts.TrimSilence < MaximumAttempts
    /\ wfTrimIn' = TrimInputOf(wfIngestOut.Asset)
    /\ wfRunning' = "TrimSilence"
    /\ wfAttempts' = [wfAttempts EXCEPT !.TrimSilence = @ + 1]
    /\ UNCHANGED <<wfIn, wfPc, wfIngestOut, wfTrimOut, wfResult, fsVars, outsideWf>>

\* the attempt returns a result: the workflow returns both outputs. The
\* files the activity leaves behind are described with TrimSilence itself.
TrimSilenceReturns ==
    /\ wfRunning = "TrimSilence"
    /\ LET output == TrimSilenceResult(wfTrimIn, now)
       IN  /\ output.ok
           /\ wfTrimOut' = output
           /\ wfResult' = [returned |-> TRUE, ok |-> TRUE,
                           IngestedAsset |-> wfIngestOut.Asset, TrimmedOutput |-> output]
    /\ wfRunning' = "none"
    /\ wfPc' = "done"
    /\ UNCHANGED <<wfIn, wfAttempts, wfTrimIn, wfIngestOut, fsVars, outsideWf>>

TrimSilenceFails ==
    /\ wfRunning = "TrimSilence"
    /\ wfRunning' = "none"
    /\ IF wfAttempts.TrimSilence < MaximumAttempts
       THEN UNCHANGED <<wfPc, wfResult>>
       ELSE wfPc' = "done" /\ wfResult' = WorkflowError
    /\ UNCHANGED <<wfIn, wfAttempts, wfTrimIn, wfIngestOut, wfTrimOut, fsVars, outsideWf>>

WorkflowFiles ==
    {WavFile(1000, 1, 16, <<0, 20000, 0>>), WavFile(1000, 1, 16, <<20000>>),
     WavFile(1000, 2, 16, <<>>), [NoContent EXCEPT !.kind = "corrupt"]}

WorkflowPaths == {Path(d, PlainName(n)) : d \in Dirs, n \in {"a", "b"}}

\* one workflow execution on a path that holds a WAV file, a file that is
\* not one, or nothing
WorkflowInit ==
    /\ RangeIdle
    /\ TrimIdle
    /\ SnrIdle
    /\ RunIdle
    /\ now = 0
    /\ \E path \in WorkflowPaths, present \in BOOLEAN, f \in WorkflowFiles :
          /\ wfIn = [FilePath |-> path]
          /\ disk = [q \in Paths |-> IF q = path /\ present THEN 1 ELSE 0]
          /\ inode = [i \in Inodes |-> IF i = 1 /\ present THEN f ELSE NoContent]
    /\ wfPc = "ingest"
    /\ wfRunning = "none"
    /\ wfAttempts = [IngestRawAudio |-> 0, TrimSilence |-> 0]
    /\ wfTrimIn = NoInput
    /\ wfIngestOut = NilIngestOutput
    /\ wfTrimOut = NilOutput
    /\ wfResult = NoWorkflowResult

WorkflowNext ==
    \/ ExecuteIngestRawAudio
    \/ IngestRawAudioReturns
    \/ IngestRawAudioFails
    \/ ExecuteTrimSilence
    \/ TrimSilenceReturns
    \/ TrimSilenceFails

SpecWorkflow == WorkflowInit /\ [][WorkflowNext]_vars

\* C25: AudioProcessingWorkflow never starts TrimSilence unless
\* IngestRawAudio has completed successfully; TrimSilence receives exactly
\* the AssetID and FilePath of that ingest; the workflow returns an output
\* only if both activities succeeded and otherwise an error and no output;
\* each activity is attempted at most 3 times.
WorkflowOrdering ==
    /\ (wfRunning = "TrimSilence" \/ wfAttempts.TrimSilence > 0) =>
          /\ wfIngestOut.ok
          /\ wfRunning # "IngestRawAudio"
          /\ wfTrimIn.AssetID = wfIngestOut.Asset.AssetID
          /\ wfTrimIn.SourcePath = wfIngestOut.Asset.FilePath
          /\ wfTrimIn.AssetID # ""
    /\ wfResult.returned =>
          IF wfIngestOut.ok /\ wfTrimOut.ok
          THEN /\ wfResult.ok
               /\ wfResult.IngestedAsset = wfIngestOut.Asset
               /\ wfResult.TrimmedOutput = wfTrimOut
          ELSE wfResult = WorkflowError
    /\ wfAttempts.IngestRawAudio <= 3
    /\ wfAttempts.TrimSilence <= 3

\* the workflow returned an output after retries of both activities
WorkflowReturnedAfterRetries ==
    /\ wfResult.returned /\ wfResult.ok
    /\ wfAttempts.IngestRawAudio = 3
    /\ wfAttempts.TrimSilence >= 2

\* ------------------------------------------------------------------------
\* Run, StartRoutines and the worker: the process lifecycle
\* ------------------------------------------------------------------------
\* most routines handed to StartRoutines
MaxRoutines == 2

\* the implementations of Routine: the WorkerRoutine that Run builds around
\* the Temporal worker, and any other implementation of the interface
RoutineKinds == {"worker", "routine"}

\* the slices of routines: Run passes the worker routine alone; there is
\* one Worker, so at most one routine wraps it
RoutineLists ==
    {l \in UNION {[1..n -> RoutineKinds] : n \in 1..MaxRoutines} :
        Cardinality({r \in DOMAIN l : l[r] = "worker"}) <= 1}

RoutineIds == DOMAIN routines

\* the process runs until Run returns and main with it
ProcessAlive == mainPc # "returned"

\* the routine is in the goroutine of StartRoutineWithError and has not
\* left fn yet
InStart(r) == rtPc[r] \in {"start", "waiting"}

\* fn returned an error or panicked, and the error is not yet in errChan
Failed(r) == rtPc[r] \in {"errored", "panicked"}

\* the routine runs its Start up to the wait for the context. Worker.Start
\* registers workflows and activities, starts temporalWorker.Run in a
\* goroutine of its own and returns at once; WorkerRoutine.Start then
\* blocks on ctx.Done().
RoutineStarts(r) ==
    /\ ProcessAlive
    /\ rtPc[r] = "start"
    /\ rtPc' = [rtPc EXCEPT ![r] = "waiting"]
    /\ twPc' = IF routines[r] = "worker" THEN "running" ELSE twPc
    /\ UNCHANGED <<routines, sent, ctxCancelled, errChan, mainWg, sig, mainPc, closed,
                   wCtxCancelled, outsideRun>>

\* Start panics before it waits: the deferred mainWg.Done() of fn runs
\* first, the deferred recover of StartRoutineWithError catches the panic
RoutinePanics(r) ==
    /\ ProcessAlive
    /\ rtPc[r] = "start"
    /\ rtPc' = [rtPc EXCEPT ![r] = "panicked"]
    /\ mainWg' = mainWg - 1
    /\ UNCHANGED <<routines, sent, ctxCancelled, errChan, sig, mainPc, closed, twPc,
                   wCtxCancelled, outsideRun>>

\* Start returns an error; WorkerRoutine.Start has no such return
RoutineFails(r) ==
    /\ ProcessAlive
    /\ routines[r] = "routine"
    /\ rtPc[r] \in {"start", "waiting"}
    /\ rtPc' = [rtPc EXCEPT ![r] = "errored"]
    /\ mainWg' = mainWg - 1
    /\ UNCHANGED <<routines, sent, ctxCancelled, errChan, sig, mainPc, closed, twPc,
                   wCtxCancelled, outsideRun>>

\* <-ctx.Done() ; return nil
RoutineReturns(r) ==
    /\ ProcessAlive
    /\ rtPc[r] = "waiting"
    /\ ctxCancelled
    /\ rtPc' = [rtPc EXCEPT ![r] = "returned"]
    /\ mainWg' = mainWg - 1
    /\ UNCHANGED <<routines, sent, ctxCancelled, errChan, sig, mainPc, closed, twPc,
                   wCtxCancelled, outsideRun>>

\* errChan <- fmt.Errorf(...): blocks while the channel is full
SendError(r) ==
    /\ ProcessAlive
    /\ Failed(r)
    /\ Len(errChan) < Len(routines)
    /\ errChan' = Append(errChan, r)
    /\ sent' = [sent EXCEPT ![r] = @ + 1]
    /\ rtPc' = [rtPc EXCEPT ![r] = "done"]
    /\ UNCHANGED <<routines, ctxCancelled, mainWg, sig, mainPc, closed, twPc,
                   wCtxCancelled, outsideRun>>

\* for err := range errChan { log ; ec.Cancel() }
Monitor ==
    /\ ProcessAlive
    /\ errChan # <<>>
    /\ errChan' = Tail(errChan)
    /\ ctxCancelled' = TRUE
    /\ UNCHANGED <<routines, rtPc, sent, mainWg, sig, mainPc, closed, twPc,
                   wCtxCancelled, outsideRun>>

\* SIGINT or SIGTERM is delivered into sigChan
Signal ==
    /\ ProcessAlive
    /\ sig = "none"
    /\ sig' = "received"
    /\ UNCHANGED <<routines, rtPc, sent, ctxCancelled, errChan, mainWg, mainPc, closed, twPc,
                   wCtxCancelled, outsideRun>>

\* SetupInterruptHandler's goroutine: sig := <-sigChan ; cancel()
SetupInterruptHandler ==
    /\ ProcessAlive
    /\ sig = "received"
    /\ sig' = "sigCtxDone"
    /\ UNCHANGED <<routines, rtPc, sent, ctxCancelled, errChan, mainWg, mainPc, closed, twPc,
                   wCtxCancelled, outsideRun>>

\* StartRoutines' goroutine: <-sigCtx.Done() ; ec.Cancel() ; sigCancel()
SignalCancels ==
    /\ ProcessAlive
    /\ sig = "sigCtxDone"
    /\ sig' = "handled"
    /\ ctxCancelled' = TRUE
    /\ UNCHANGED <<routines, rtPc, sent, errChan, mainWg, mainPc, closed, twPc,
                   wCtxCancelled, outsideRun>>

\* the error channel after temporalWorker.Run returned an error to a
\* goroutine that reports it as a routine error
RunErrorReportedToChannel(chan, r) == Append(chan, r)

\* the error channel after temporalWorker.Run returned an error: the
\* goroutine of Worker.Start only logs it
RunErrorReported(chan, r) == chan

\* temporalWorker.Run returns an error
TemporalWorkerRunFails ==
    /\ ProcessAlive
    /\ twPc = "running"
    /\ twPc' = "errored"
    /\ \E r \in RoutineIds :
          /\ routines[r] = "worker"
          /\ errChan' = RunErrorReported(errChan, r)
    /\ UNCHANGED <<routines, rtPc, sent, ctxCancelled, mainWg, sig, mainPc, closed,
                   wCtxCancelled, outsideRun>>

\* temporalWorker.Run returns once interruptCh is closed, which follows the
\* cancellation of the worker's own context
TemporalWorkerRunStops ==
    /\ ProcessAlive
    /\ twPc = "running"
    /\ wCtxCancelled
    /\ twPc' = "stopped"
    /\ UNCHANGED <<routines, rtPc, sent, ctxCancelled, errChan, mainWg, sig, mainPc, closed,
                   wCtxCancelled, outsideRun>>

\* mainWg.Wait() returns
WaitReturns ==
    /\ mainPc = "wait"
    /\ mainWg = 0
    /\ mainPc' = "close"
    /\ UNCHANGED <<routines, rtPc, sent, ctxCancelled, errChan, mainWg, sig, closed, twPc,
                   wCtxCancelled, outsideRun>>

\* the cleanup loop closes the routines from first to last
NextToCloseForward(n, closedSoFar) == Len(closedSoFar) + 1

\* for i := len(closeables) - 1; i >= 0; i--
NextToClose(n, closedSoFar) == n - Len(closedSoFar)

\* closeables[i].Close() is called. WorkerRoutine.Close calls Worker.Stop,
\* which cancels the worker's context, stops the Temporal worker and then
\* waits for the goroutine of Worker.Start
CallClose ==
    /\ mainPc = "close"
    /\ Len(closed) < Len(routines)
    /\ LET i == NextToClose(Len(routines), closed)
       IN  /\ closed' = Append(closed, i)
           /\ IF routines[i] = "worker"
              THEN mainPc' = "stopping" /\ wCtxCancelled' = TRUE
              ELSE UNCHANGED <<mainPc, wCtxCancelled>>
    /\ UNCHANGED <<routines, rtPc, sent, ctxCancelled, errChan, mainWg, sig, twPc, outsideRun>>

\* w.wg.Wait() returns and Worker.Stop with it
WorkerStopReturns ==
    /\ mainPc = "stopping"
    /\ twPc # "running"
    /\ mainPc' = "close"
    /\ UNCHANGED <<routines, rtPc, sent, ctxCancelled, errChan, mainWg, sig, closed, twPc,
                   wCtxCancelled, outsideRun>>

\* Run returns nil; main returns and the process ends with its goroutines
RunReturns ==
    /\ mainPc = "close"
    /\ Len(closed) = Len(routines)
    /\ mainPc' = "returned"
    /\ UNCHANGED <<routines, rtPc, sent, ctxCancelled, errChan, mainWg, sig, closed, twPc,
                   wCtxCancelled, outsideRun>>

\* StartRoutines has started every routine, the monitor and the signal
\* handler, and Run is about to wait
RunInit ==
    /\ RangeIdle
    /\ FsIdle
    /\ TrimIdle
    /\ SnrIdle
    /\ WfIdle
    /\ routines \in RoutineLists
    /\ rtPc = [r \in DOMAIN routines |-> "start"]
    /\ sent = [r \in DOMAIN routines |-> 0]
    /\ ctxCancelled = FALSE
    /\ errChan = <<>>
    /\ mainWg = Len(routines)
    /\ sig = "none"
    /\ mainPc = "wait"
    /\ closed = <<>>
    /\ twPc = "notStarted"
    /\ wCtxCancelled = FALSE

RunNext ==
    \/ \E r \in RoutineIds : RoutineStarts(r)
    \/ \E r \in RoutineIds : RoutinePanics(r)
    \/ \E r \in RoutineIds : RoutineFails(r)
    \/ \E r \in RoutineIds : RoutineReturns(r)
    \/ \E r \in RoutineIds : SendError(r)
    \/ Monitor
    \/ Signal
    \/ SetupInterruptHandler
    \/ SignalCancels
    \/ TemporalWorkerRunFails
    \/ TemporalWorkerRunStops
    \/ WaitReturns
    \/ CallClose
    \/ WorkerStopReturns
    \/ RunReturns

SpecRun == RunInit /\ [][RunNext]_vars

\* every goroutine that can take a step is scheduled; the arrival of a
\* signal and the failures are not owed
RunFairness ==
    /\ \A r \in 1..MaxRoutines :
          /\ WF_vars(r \in RoutineIds /\ (RoutineStarts(r) \/ RoutinePanics(r) \/ RoutineFails(r)))
          /\ WF_vars(r \in RoutineIds /\ RoutineReturns(r))
          /\ WF_vars(r \in RoutineIds /\ SendError(r))
    /\ WF_vars(Monitor)
    /\ WF_vars(SetupInterruptHandler)
    /\ WF_vars(SignalCancels)
    /\ WF_vars(TemporalWorkerRunStops)
    /\ WF_vars(WaitReturns)
    /\ WF_vars(CallClose)
    /\ WF_vars(WorkerStopReturns)
    /\ WF_vars(RunReturns)

SpecRunFair == SpecRun /\ RunFairness

\* the routines in the reverse of the order in which they were started
ReverseOrder(n) == [k \in 1..n |-> n - k + 1]

AllStartsReturned == \A r \in RoutineIds : ~InStart(r)

\* Run is past mainWg.Wait only when every routine has left Start, and the
\* calls of Close made so far are the first ones of the reverse order
ShutdownOrder ==
    /\ mainPc # "wait" => (mainWg = 0 /\ AllStartsReturned)
    /\ Len(closed) <= Len(routines)
    /\ closed = SubSeq(ReverseOrder(Len(routines)), 1, Len(closed))
    /\ closed # <<>> => mainPc # "wait"
    /\ mainPc = "returned" => closed = ReverseOrder(Len(routines))

\* a signal has arrived while Run waits and every routine is a worker
\* routine blocked on the context
SignalWhileWorkersWait ==
    /\ sig # "none"
    /\ mainPc = "wait"
    /\ \A r \in RoutineIds : routines[r] = "worker" /\ rtPc[r] = "waiting"

RoutineFailureIsolation ==
    /\ [](\A r \in RoutineIds :
             /\ sent[r] <= 1
             /\ Failed(r) => Len(errChan) < Len(routines)
             /\ sent[r] = 1 <=> rtPc[r] = "done")
    /\ \A r \in 1..MaxRoutines :
          (r \in RoutineIds /\ Failed(r))
              ~> (r \in RoutineIds /\ sent[r] = 1 /\ ctxCancelled /\ AllStartsReturned)

\* Run(cfg) as deployed: the worker routine alone
WorkerAlone == routines = <<"worker">>

\* the step in which temporalWorker.Run returns an error
RunErrorStep == twPc = "running" /\ twPc' = "errored"

\* C28: Worker.Start returns without waiting for the Temporal worker; an
\* error that temporalWorker.Run returns later is only logged: the routine
\* context is not cancelled and no routine error is reported, so Run(cfg)
\* keeps blocking until an interrupt signal arrives.
WorkerRunErrorOnlyLogged ==
    /\ [](\A r \in RoutineIds :
             (routines[r] = "worker" /\ twPc # "notStarted") => rtPc[r] # "start")
    /\ [][RunErrorStep =>
             UNCHANGED <<routines, rtPc, sent, ctxCancelled, errChan, mainWg, sig, mainPc,
                         closed, wCtxCancelled>>]_vars
    /\ []((WorkerAlone /\ twPc = "errored" /\ sig = "none") =>
             /\ mainPc = "wait"
             /\ rtPc[1] = "waiting"
             /\ mainWg = 1
             /\ ~ctxCancelled
             /\ errChan = <<>>
             /\ sent[1] = 0)

\* the Temporal worker of the deployed process has failed and no signal has
\* arrived
WorkerErroredNoSignal ==
    /\ WorkerAlone
    /\ twPc = "errored"
    /\ sig = "none"
    /\ mainPc = "wait"

\* TrimSilence of p fails in this step, after os.Create has succeeded
FailsAfterCreate(p) ==
    /\ tPc[p] \in {"write", "close", "hashOutput", "hashOriginal"}
    /\ tPc'[p] = "done"
    /\ ~tRes'[p].ok

\* the output file of p is on disk under the output path
OutputFileOnDisk(p) ==
    /\ tLoc[p].outputFile # 0
    /\ disk[tLoc[p].outputPath] = tLoc[p].outputFile
    /\ inode[tLoc[p].outputFile].kind \in {"empty", "partial", "wav"}

\* C29: when TrimSilence fails after the output file has been created
\* (encoder write or close, seek, or hashing of either file), it returns an
\* error with a nil result and cleans nothing up: the partially written
\* output file stays on disk and its path is not reported to the caller.
FailureLeavesOutputFile ==
    /\ [][\A p \in Procs : FailsAfterCreate(p) =>
             /\ tRes'[p] = NilOutput
             /\ tRes'[p].OutputPath = NoPath
             /\ OutputFileOnDisk(p)
             /\ OutputFileOnDisk(p)'
             /\ disk' = disk]_vars
    /\ [](\A p \in Procs : (tPc[p] = "done" /\ ~tRes[p].ok /\ Created(p)) => OutputFileOnDisk(p))

\* the encoder failed half way and the call has returned its error
FailedWithPartialOutput ==
    /\ tPc[1] = "done"
    /\ ~tRes[1].ok
    /\ OutputFileOnDisk(1)
    /\ inode[tLoc[1].outputFile].kind = "partial"

\* the step leaves the source file of p as it is: the path still names the
\* same file and the file has the same content
SourceFileKept(p) ==
    tIn[p] # NoInput =>
        /\ disk'[tIn[p].SourcePath] = disk[tIn[p].SourcePath]
        /\ disk[tIn[p].SourcePath] # 0 =>
              inode'[disk[tIn[p].SourcePath]] = inode[disk[tIn[p].SourcePath]]

\* the step changes no path and no file other than the output path and the
\* output file of an invocation
OnlyOutputTouched ==
    /\ \A path \in Paths :
          disk'[path] # disk[path] =>
              \E p \in Procs : /\ tIn[p] # NoInput
                               /\ path = tLoc'[p].outputPath
                               /\ \E t \in 0..now :
                                     path = OutputPathOf(tIn[p].SourcePath, tIn[p].AssetID, t)
    /\ \A i \in Inodes :
          inode'[i] # inode[i] => \E p \in Procs : tLoc'[p].outputFile = i

\* the step of the full-range no-op branch touches no file
NoOpTouchesNoFile ==
    \A p \in Procs : (tPc[p] = "noop" /\ tPc'[p] = "done") => UNCHANGED <<disk, inode>>

\* C30: IngestRawAudio, TrimSilence and ComputeSNR never write to, truncate
\* or delete the source file; the only file TrimSilence creates, writes or
\* removes is its own output path trimmed_<AssetID>_<timestamp>.wav in the
\* source file's directory, and the full-range no-op branch touches no file.
FileFrameCondition ==
    [][/\ \A p \in Procs : SourceFileKept(p)
       /\ OnlyOutputTouched
       /\ NoOpTouchesNoFile]_vars
====
